---- MODULE Spec2Model ----
(***************************************************************************)
(* Model of the coralswap Pair contract (src/pair/src/lib.rs, storage.rs,  *)
(* errors.rs): the one-shot initialize entry point, the instance storage   *)
(* it writes, and the two read accessors.                                  *)
(*                                                                         *)
(* The host runs every invocation as one atomic transaction.  The model    *)
(* splits an invocation in three steps so that the arguments and the       *)
(* returned value are visible in the state: the client submits a call      *)
(* (Invoke...), the contract handler runs to completion (Initialize,       *)
(* GetReserves, GetFeeState), the client consumes the result (Return).     *)
(***************************************************************************)
EXTENDS Integers, Sequences, FiniteSets, TLC

(* ---------------------------------------------------------------------- *)
(* Bounds                                                                  *)
(* ---------------------------------------------------------------------- *)

\* Addresses are identified by their rank in the host's total order on
\* Address values; ranks 0..MaxAddr are in play.
MaxAddr == 4

\* Rejected initialize calls are counted up to MaxRejected.
MaxRejected == 2

Address == 0..MaxAddr

(* ---------------------------------------------------------------------- *)
(* errors.rs                                                               *)
(* ---------------------------------------------------------------------- *)

AlreadyInitialized == 100
ZeroAddress == 101
IdenticalTokens == 102
InsufficientLiquidityMinted == 103
InsufficientLiquidityBurned == 104
InsufficientOutputAmount == 105
InsufficientLiquidity == 106
InvalidAmount == 107
KInvariant == 108
InsufficientInputAmount == 109
Locked == 110
Expired == 111
ConstraintNotMet == 112
InvalidFee == 113

\* The whole PairError enumeration: discriminants 100..113.
PairError == AlreadyInitialized..InvalidFee

(* ---------------------------------------------------------------------- *)
(* storage.rs                                                              *)
(* ---------------------------------------------------------------------- *)

DataKey == {"PairStorage", "FeeState", "ReentrancyGuard"}

PairStorage(factory, token_0, token_1, lp_token, reserve_0, reserve_1, block_timestamp_last) ==
    [factory |-> factory, token_0 |-> token_0, token_1 |-> token_1,
     lp_token |-> lp_token, reserve_0 |-> reserve_0, reserve_1 |-> reserve_1,
     block_timestamp_last |-> block_timestamp_last]

FeeState(baseline_bps, min_bps, max_bps) ==
    [baseline_bps |-> baseline_bps, min_bps |-> min_bps, max_bps |-> max_bps]

ReentrancyGuard(locked) == [locked |-> locked]

(* ---------------------------------------------------------------------- *)
(* Host instance storage: a partial map from DataKey to values             *)
(* ---------------------------------------------------------------------- *)

\* The instance storage of a freshly registered contract: no entries.
EmptyStorage == [k \in {} |-> 0]

\* env.storage().instance().has(key)
has(st, key) == key \in DOMAIN st

\* env.storage().instance().set(key, val)
set(st, key, val) == [k \in (DOMAIN st) \cup {key} |-> IF k = key THEN val ELSE st[k]]

\* env.storage().instance().extend_ttl(threshold, extend_to): the instance's
\* time to live is raised to extend_to when it is below threshold.
extend_ttl(t, threshold, extend_to) == IF t < threshold THEN extend_to ELSE t

(* ---------------------------------------------------------------------- *)
(* lib.rs                                                                  *)
(* ---------------------------------------------------------------------- *)

\* The address the literal "GAAA...AWHF" decodes to: the account whose
\* ed25519 key is all zero bytes, the least Address of the host's order.
zero_address == 0

is_zero_address(address) == address = zero_address

\* Return values of the entry points.
Ok(v) == [kind |-> "Ok", err |-> 0, val |-> v]
Err(e) == [kind |-> "Err", err |-> e, val |-> <<>>]
\* Option::unwrap on None: the transaction traps.
Abort == [kind |-> "Abort", err |-> 0, val |-> <<>>]
NoRet == [kind |-> "None", err |-> 0, val |-> <<>>]

\* Variants of the precondition checks with one slip each.
\* The double-init guard is missing.
initialize_check_no_guard(st, factory, token_a, token_b, lp_token) ==
    IF \/ is_zero_address(factory)
       \/ is_zero_address(token_a)
       \/ is_zero_address(token_b)
       \/ is_zero_address(lp_token) THEN ZeroAddress
    ELSE IF token_a = token_b THEN IdenticalTokens
    ELSE 0

\* The identical-token check runs before the zero-address validation.
initialize_check_tokens_first(st, factory, token_a, token_b, lp_token) ==
    IF has(st, "PairStorage") THEN AlreadyInitialized
    ELSE IF token_a = token_b THEN IdenticalTokens
    ELSE IF \/ is_zero_address(factory)
            \/ is_zero_address(token_a)
            \/ is_zero_address(token_b)
            \/ is_zero_address(lp_token) THEN ZeroAddress
    ELSE 0

\* The identical-token check is missing.
initialize_check_no_identical(st, factory, token_a, token_b, lp_token) ==
    IF has(st, "PairStorage") THEN AlreadyInitialized
    ELSE IF \/ is_zero_address(factory)
            \/ is_zero_address(token_a)
            \/ is_zero_address(token_b)
            \/ is_zero_address(lp_token) THEN ZeroAddress
    ELSE 0

\* lp_token is not validated against the zero address.
initialize_check_lp_unchecked(st, factory, token_a, token_b, lp_token) ==
    IF has(st, "PairStorage") THEN AlreadyInitialized
    ELSE IF \/ is_zero_address(factory)
            \/ is_zero_address(token_a)
            \/ is_zero_address(token_b) THEN ZeroAddress
    ELSE IF token_a = token_b THEN IdenticalTokens
    ELSE 0

\* Identical tokens are reported with a code of the reserved range.
initialize_check_wrong_code(st, factory, token_a, token_b, lp_token) ==
    IF has(st, "PairStorage") THEN AlreadyInitialized
    ELSE IF \/ is_zero_address(factory)
            \/ is_zero_address(token_a)
            \/ is_zero_address(token_b)
            \/ is_zero_address(lp_token) THEN ZeroAddress
    ELSE IF token_a = token_b THEN ConstraintNotMet
    ELSE 0

\* The guard consults the reentrancy flag instead of the presence of the
\* PairStorage record.
initialize_check_guard_on_lock(st, factory, token_a, token_b, lp_token) ==
    IF has(st, "ReentrancyGuard") /\ st["ReentrancyGuard"].locked THEN AlreadyInitialized
    ELSE IF \/ is_zero_address(factory)
            \/ is_zero_address(token_a)
            \/ is_zero_address(token_b)
            \/ is_zero_address(lp_token) THEN ZeroAddress
    ELSE IF token_a = token_b THEN IdenticalTokens
    ELSE 0

\* factory and lp_token are also required to differ.
initialize_check_all_distinct(st, factory, token_a, token_b, lp_token) ==
    IF has(st, "PairStorage") THEN AlreadyInitialized
    ELSE IF \/ is_zero_address(factory)
            \/ is_zero_address(token_a)
            \/ is_zero_address(token_b)
            \/ is_zero_address(lp_token) THEN ZeroAddress
    ELSE IF token_a = token_b \/ factory = lp_token THEN IdenticalTokens
    ELSE 0

\* lib.rs:33-49, the three ordered precondition checks of initialize;
\* 0 when all of them pass.
initialize_check(st, factory, token_a, token_b, lp_token) ==
    IF has(st, "PairStorage") THEN AlreadyInitialized
    ELSE IF \/ is_zero_address(factory)
            \/ is_zero_address(token_a)
            \/ is_zero_address(token_b)
            \/ is_zero_address(lp_token) THEN ZeroAddress
    ELSE IF token_a = token_b THEN IdenticalTokens
    ELSE 0

\* Variants of the token ordering: the arguments kept as given, and the
\* comparison reversed.
sort_tokens_as_given(token_a, token_b) == <<token_a, token_b>>

sort_tokens_reversed(token_a, token_b) ==
    IF token_a > token_b THEN <<token_a, token_b>> ELSE <<token_b, token_a>>

\* lib.rs:56-60
sort_tokens(token_a, token_b) ==
    IF token_a < token_b THEN <<token_a, token_b>> ELSE <<token_b, token_a>>

\* Variant of the record construction with factory and lp_token exchanged.
new_pair_storage_exchanged(factory, token_a, token_b, lp_token) ==
    LET t == sort_tokens(token_a, token_b)
    IN  PairStorage(lp_token, t[1], t[2], factory, 0, 0, 0)

\* lib.rs:62-70
new_pair_storage(factory, token_a, token_b, lp_token) ==
    LET t == sort_tokens(token_a, token_b)
    IN  PairStorage(factory, t[1], t[2], lp_token, 0, 0, 0)

\* Variant of the fee defaults with baseline_bps and min_bps exchanged.
new_fee_state_mixed == FeeState(10, 30, 100)

\* Variant of the fee defaults with min_bps and max_bps exchanged.
new_fee_state_inverted == FeeState(30, 100, 10)

\* lib.rs:74-78
new_fee_state == FeeState(30, 10, 100)

\* Variant of the guard record that starts locked.
new_reentrancy_guard_locked == ReentrancyGuard(TRUE)

\* lib.rs:82
new_reentrancy_guard == ReentrancyGuard(FALSE)

LedgerBump == 120960

\* Variant of initialize that writes the reentrancy guard before it
\* validates, so a rejected call leaves a record behind.
initialize_write_first(st, t, factory, token_a, token_b, lp_token) ==
    LET e == initialize_check(st, factory, token_a, token_b, lp_token)
        st1 == set(st, "ReentrancyGuard", new_reentrancy_guard)
    IN  IF e # 0
        THEN [ret |-> Err(e), store |-> st1, ttl |-> t]
        ELSE [ret |-> Ok(<<>>),
              store |-> set(set(st1,
                            "PairStorage", new_pair_storage(factory, token_a, token_b, lp_token)),
                            "FeeState", new_fee_state),
              ttl |-> extend_ttl(t, LedgerBump, LedgerBump)]

\* Variant of initialize that does not persist the FeeState record.
initialize_no_fee(st, t, factory, token_a, token_b, lp_token) ==
    LET e == initialize_check(st, factory, token_a, token_b, lp_token)
    IN  IF e # 0
        THEN [ret |-> Err(e), store |-> st, ttl |-> t]
        ELSE [ret |-> Ok(<<>>),
              store |-> set(set(st,
                            "PairStorage", new_pair_storage(factory, token_a, token_b, lp_token)),
                            "ReentrancyGuard", new_reentrancy_guard),
              ttl |-> extend_ttl(t, LedgerBump, LedgerBump)]

\* Variant of initialize that persists PairStorage before it validates the
\* arguments.
initialize_persist_first(st, t, factory, token_a, token_b, lp_token) ==
    LET e == initialize_check(st, factory, token_a, token_b, lp_token)
        st1 == set(st, "PairStorage", new_pair_storage(factory, token_a, token_b, lp_token))
    IN  IF e = AlreadyInitialized
        THEN [ret |-> Err(e), store |-> st, ttl |-> t]
        ELSE IF e # 0
        THEN [ret |-> Err(e), store |-> st1, ttl |-> t]
        ELSE [ret |-> Ok(<<>>),
              store |-> set(set(st1,
                            "FeeState", new_fee_state),
                            "ReentrancyGuard", new_reentrancy_guard),
              ttl |-> extend_ttl(t, LedgerBump, LedgerBump)]

\* lib.rs:26-92, Pair::initialize as a function of the instance storage and
\* its time to live: the returned value, the storage and the ttl afterwards.
initialize(st, t, factory, token_a, token_b, lp_token) ==
    LET e == initialize_check(st, factory, token_a, token_b, lp_token)
    IN  IF e # 0
        THEN [ret |-> Err(e), store |-> st, ttl |-> t]
        ELSE [ret |-> Ok(<<>>),
              store |-> set(set(set(st,
                            "PairStorage", new_pair_storage(factory, token_a, token_b, lp_token)),
                            "FeeState", new_fee_state),
                            "ReentrancyGuard", new_reentrancy_guard),
              ttl |-> extend_ttl(t, LedgerBump, LedgerBump)]

\* Variant of get_reserves that falls back to a default instead of
\* unwrapping.
get_reserves_or_default(st) ==
    IF has(st, "PairStorage")
    THEN Ok(<<st["PairStorage"].reserve_0, st["PairStorage"].reserve_1,
              st["PairStorage"].block_timestamp_last>>)
    ELSE Ok(<<0, 0, 0>>)

\* lib.rs:94-97
get_reserves(st) ==
    IF has(st, "PairStorage")
    THEN Ok(<<st["PairStorage"].reserve_0, st["PairStorage"].reserve_1,
              st["PairStorage"].block_timestamp_last>>)
    ELSE Abort

\* lib.rs:99-101
get_fee_state(st) ==
    IF has(st, "FeeState") THEN Ok(st["FeeState"]) ELSE Abort

(* ---------------------------------------------------------------------- *)
(* State                                                                   *)
(* ---------------------------------------------------------------------- *)

VARIABLES
    store,      \* instance storage of the contract
    ttl,        \* time to live of the instance storage, in ledgers
    pc,         \* "idle", "invoked" (call submitted), "returned" (result ready)
    call,       \* the invocation in flight: entry point and arguments
    ret,        \* what the invocation returned
    succeeded,  \* history: some initialize on this instance returned Ok
    twin,       \* instance storage of a second, separately registered instance
    twin_ret,   \* what the mirrored invocation on the second instance returned
    rejections  \* history: initialize calls rejected for their arguments

vars == <<store, ttl, pc, call, ret, succeeded, twin, twin_ret, rejections>>

NoCall == [op |-> "none", args |-> <<>>]

Init ==
    /\ store = EmptyStorage
    /\ ttl = 0
    /\ pc = "idle"
    /\ call = NoCall
    /\ ret = NoRet
    /\ succeeded = FALSE
    /\ twin = EmptyStorage
    /\ twin_ret = NoRet
    /\ rejections = 0

(* ---------------------------------------------------------------------- *)
(* Client steps                                                            *)
(* ---------------------------------------------------------------------- *)

InvokeInitialize(factory, token_a, token_b, lp_token) ==
    /\ pc = "idle"
    /\ pc' = "invoked"
    /\ call' = [op |-> "initialize", args |-> <<factory, token_a, token_b, lp_token>>]
    /\ UNCHANGED <<store, ttl, ret, succeeded, twin, twin_ret, rejections>>

InvokeGetReserves ==
    /\ pc = "idle"
    /\ pc' = "invoked"
    /\ call' = [op |-> "get_reserves", args |-> <<>>]
    /\ UNCHANGED <<store, ttl, ret, succeeded, twin, twin_ret, rejections>>

InvokeGetFeeState ==
    /\ pc = "idle"
    /\ pc' = "invoked"
    /\ call' = [op |-> "get_fee_state", args |-> <<>>]
    /\ UNCHANGED <<store, ttl, ret, succeeded, twin, twin_ret, rejections>>

Return ==
    /\ pc = "returned"
    /\ pc' = "idle"
    /\ call' = NoCall
    /\ ret' = NoRet
    /\ twin_ret' = NoRet
    /\ UNCHANGED <<store, ttl, succeeded, twin, rejections>>

(* ---------------------------------------------------------------------- *)
(* Contract handlers: one atomic transaction each                          *)
(* ---------------------------------------------------------------------- *)

InitializeTx ==
    /\ pc = "invoked"
    /\ call.op = "initialize"
    /\ LET r == initialize(store, ttl, call.args[1], call.args[2], call.args[3], call.args[4])
       IN  /\ store' = r.store
           /\ ttl' = r.ttl
           /\ ret' = r.ret
           /\ succeeded' = (succeeded \/ r.ret.kind = "Ok")
    /\ pc' = "returned"
    /\ UNCHANGED call

Initialize ==
    /\ InitializeTx
    /\ UNCHANGED <<twin, twin_ret, rejections>>

\* Variant of the get_reserves handler that takes the reentrancy lock and
\* does not release it.
GetReservesLocking ==
    /\ pc = "invoked"
    /\ call.op = "get_reserves"
    /\ ret' = get_reserves(store)
    /\ store' = IF has(store, "PairStorage")
                THEN set(store, "ReentrancyGuard", ReentrancyGuard(TRUE))
                ELSE store
    /\ pc' = "returned"
    /\ UNCHANGED <<ttl, call, succeeded, twin, twin_ret, rejections>>

GetReserves ==
    /\ pc = "invoked"
    /\ call.op = "get_reserves"
    /\ ret' = get_reserves(store)
    /\ pc' = "returned"
    /\ UNCHANGED <<store, ttl, call, succeeded, twin, twin_ret, rejections>>

GetFeeState ==
    /\ pc = "invoked"
    /\ call.op = "get_fee_state"
    /\ ret' = get_fee_state(store)
    /\ pc' = "returned"
    /\ UNCHANGED <<store, ttl, call, succeeded, twin, twin_ret, rejections>>

Next ==
    \/ \E factory, token_a, token_b, lp_token \in Address :
          InvokeInitialize(factory, token_a, token_b, lp_token)
    \/ InvokeGetReserves
    \/ InvokeGetFeeState
    \/ Initialize
    \/ GetReserves
    \/ GetFeeState
    \/ Return

Spec == Init /\ [][Next]_vars

(* ---------------------------------------------------------------------- *)
(* Two instances driven with mirrored token arguments                      *)
(* ---------------------------------------------------------------------- *)

\* The call initialize(f, A, B, L) runs on the first instance and, in the
\* same step, initialize(f, B, A, L) runs on the second one.
InitializeBoth ==
    /\ InitializeTx
    /\ LET r == initialize(twin, ttl, call.args[1], call.args[3], call.args[2], call.args[4])
       IN  /\ twin' = r.store
           /\ twin_ret' = r.ret
    /\ UNCHANGED rejections

NextTwin ==
    \/ \E factory, token_a, token_b, lp_token \in Address :
          InvokeInitialize(factory, token_a, token_b, lp_token)
    \/ InitializeBoth
    \/ Return

SpecTwin == Init /\ [][NextTwin]_vars

(* ---------------------------------------------------------------------- *)
(* A caller that re-invokes initialize until it succeeds                   *)
(* ---------------------------------------------------------------------- *)

\* The caller submits initialize calls on the instance as long as none has
\* succeeded.
InvokeRetry(factory, token_a, token_b, lp_token) ==
    /\ ~succeeded
    /\ InvokeInitialize(factory, token_a, token_b, lp_token)

\* The handler of initialize, with the calls that were rejected with
\* ZeroAddress or IdenticalTokens counted.
InitializeCounted ==
    /\ InitializeTx
    /\ rejections' =
          IF ret'.kind = "Err" /\ ret'.err \in {ZeroAddress, IdenticalTokens}
               /\ rejections < MaxRejected
          THEN rejections + 1
          ELSE rejections
    /\ UNCHANGED <<twin, twin_ret>>

NextRetry ==
    \/ \E factory, token_a, token_b, lp_token \in Address :
          InvokeRetry(factory, token_a, token_b, lp_token)
    \/ InitializeCounted
    \/ Return

SpecRetry == Init /\ [][NextRetry]_vars

TypeOK ==
    /\ DOMAIN store \subseteq DataKey
    /\ DOMAIN twin \subseteq DataKey
    /\ ttl \in {0, LedgerBump}
    /\ pc \in {"idle", "invoked", "returned"}
    /\ call.op \in {"none", "initialize", "get_reserves", "get_fee_state"}
    /\ ret.kind \in {"None", "Ok", "Err", "Abort"}
    /\ succeeded \in BOOLEAN

(* ---------------------------------------------------------------------- *)
(* Properties                                                              *)
(* ---------------------------------------------------------------------- *)

\* A step in which the handler of entry point op runs.
Handles(op) == pc = "invoked" /\ call.op = op /\ pc' = "returned"

\* A state in which entry point op has just returned.
Returned(op) == pc = "returned" /\ call.op = op

NonNull(a) == a # zero_address

AllNonNull(args) == \A i \in 1..4 : NonNull(args[i])

PairwiseDistinct(args) == \A i, j \in 1..4 : i # j => args[i] # args[j]

\* The identity part of a PairStorage record.
Identity(ps) == <<ps.factory, ps.token_0, ps.token_1, ps.lp_token>>

\* C1: on a fresh instance, initialize with non-null pairwise-distinct
\* arguments succeeds; once some initialize has succeeded, every
\* initialize call, whatever its arguments, returns AlreadyInitialized
\* (so there is exactly one success).
C1_InitializeOnce ==
    [][Handles("initialize") =>
         /\ (~succeeded /\ store = EmptyStorage
               /\ AllNonNull(call.args) /\ PairwiseDistinct(call.args)
               => ret' = Ok(<<>>))
         /\ (succeeded => ret' = Err(AlreadyInitialized))]_vars

\* A later initialize with a null argument and equal tokens was rejected
\* with AlreadyInitialized.
C1_Witness ==
    /\ Returned("initialize")
    /\ succeeded
    /\ ret = Err(AlreadyInitialized)
    /\ call.args[2] = call.args[3]
    /\ call.args[1] = zero_address

\* C2: initialize returns the error of the first failing check in the
\* order guard, null address, identical tokens: AlreadyInitialized whenever
\* the PairStorage record exists; ZeroAddress whenever it does not exist and
\* some argument is null; IdenticalTokens only when it does not exist and
\* no argument is null.
C2_CheckOrder ==
    [][Handles("initialize") =>
         /\ ("PairStorage" \in DOMAIN store => ret' = Err(AlreadyInitialized))
         /\ ("PairStorage" \notin DOMAIN store /\ ~AllNonNull(call.args)
               => ret' = Err(ZeroAddress))
         /\ (ret' = Err(IdenticalTokens)
               => "PairStorage" \notin DOMAIN store /\ AllNonNull(call.args))]_vars

\* An uninitialized instance rejected equal non-null tokens with
\* ZeroAddress because another argument was null.
C2_Witness ==
    /\ Returned("initialize")
    /\ ret = Err(ZeroAddress)
    /\ call.args[2] = call.args[3]
    /\ NonNull(call.args[2])
    /\ store = EmptyStorage

\* C3 as stated: every initialize call with token_a = token_b returns
\* IdenticalTokens, whatever the other arguments and the state.
C3_Original ==
    Returned("initialize") /\ call.args[2] = call.args[3]
        => ret = Err(IdenticalTokens)

\* C3 amended: on an instance without a PairStorage record, initialize with
\* four non-null arguments and token_a = token_b returns IdenticalTokens,
\* whatever factory and lp_token are.
C3_IdenticalTokens ==
    [][Handles("initialize") /\ "PairStorage" \notin DOMAIN store
         /\ AllNonNull(call.args) /\ call.args[2] = call.args[3]
         => ret' = Err(IdenticalTokens)]_vars

\* Equal tokens were rejected with IdenticalTokens, with factory and
\* lp_token equal to each other.
C3_Witness ==
    /\ Returned("initialize")
    /\ ret = Err(IdenticalTokens)
    /\ call.args[2] = call.args[3]
    /\ call.args[1] = call.args[4]

\* C4: while no initialize has succeeded, a null address in any one of the
\* four parameter positions makes initialize return ZeroAddress, whatever
\* the other three arguments are.
C4_ZeroAddress ==
    [][Handles("initialize") /\ ~succeeded =>
         \A i \in 1..4 : call.args[i] = zero_address => ret' = Err(ZeroAddress)]_vars

\* Only lp_token was null and the call was rejected with ZeroAddress.
C4_Witness ==
    /\ Returned("initialize")
    /\ ~succeeded
    /\ ret = Err(ZeroAddress)
    /\ call.args[4] = zero_address
    /\ \A i \in 1..3 : NonNull(call.args[i])
    /\ call.args[2] # call.args[3]

\* C5: an initialize call that returns an error leaves the instance storage
\* (presence and contents of all three records) and its ttl unchanged.
C5_AllOrNothing ==
    [][Handles("initialize") /\ ret'.kind # "Ok" =>
         /\ ret'.kind = "Err"
         /\ ret'.err \in {AlreadyInitialized, ZeroAddress, IdenticalTokens}
         /\ store' = store
         /\ ttl' = ttl]_vars

\* A rejected call on an instance that is still empty.
C5_Witness ==
    /\ Returned("initialize")
    /\ ret = Err(IdenticalTokens)
    /\ store = EmptyStorage
    /\ ttl = 0

\* C6: once initialize has succeeded the PairStorage record exists, and
\* every step keeps it and keeps its identity fields; before that, the only
\* step that creates it is a successful initialize.
C6_IdentityImmutable ==
    [][/\ (succeeded =>
             /\ "PairStorage" \in DOMAIN store
             /\ "PairStorage" \in DOMAIN store'
             /\ Identity(store'["PairStorage"]) = Identity(store["PairStorage"]))
       /\ (store' # store => Handles("initialize") /\ ret' = Ok(<<>>) /\ ~succeeded)]_vars

\* After the success a further initialize, with arguments that would give
\* another identity, has run.
C6_Witness ==
    /\ Returned("initialize")
    /\ succeeded
    /\ ret.kind = "Err"
    /\ AllNonNull(call.args)
    /\ call.args[2] # call.args[3]
    /\ call.args[1] # store["PairStorage"].factory
    /\ call.args[2] # store["PairStorage"].token_0
    /\ call.args[2] # store["PairStorage"].token_1

\* C7: when initialize(f, A, B, L) runs on one fresh instance and
\* initialize(f, B, A, L) on another, with f, A, B, L non-null and A # B,
\* both succeed and the two instances hold the same records.
C7_Commutative ==
    [][Handles("initialize") /\ store = EmptyStorage /\ twin = EmptyStorage
         /\ AllNonNull(call.args) /\ call.args[2] # call.args[3]
         => /\ ret' = Ok(<<>>)
            /\ twin_ret' = Ok(<<>>)
            /\ store'["PairStorage"].token_0 = twin'["PairStorage"].token_0
            /\ store'["PairStorage"].token_1 = twin'["PairStorage"].token_1
            /\ store'["PairStorage"] = twin'["PairStorage"]
            /\ store' = twin']_vars

\* Both instances were initialized, one with the greater token first.
C7_Witness ==
    /\ Returned("initialize")
    /\ ret = Ok(<<>>)
    /\ twin_ret = Ok(<<>>)
    /\ call.args[2] > call.args[3]
    /\ twin # EmptyStorage

\* C8: whenever the PairStorage record exists, token_0 < token_1 (so the
\* tokens differ) and factory, token_0, token_1 and lp_token are non-null.
C8_CanonicalOrder ==
    "PairStorage" \in DOMAIN store =>
        LET ps == store["PairStorage"]
        IN  /\ ps.token_0 < ps.token_1
            /\ ps.token_0 # ps.token_1
            /\ NonNull(ps.factory) /\ NonNull(ps.token_0)
            /\ NonNull(ps.token_1) /\ NonNull(ps.lp_token)

\* A successful initialize that was given the greater token first.
C8_Witness ==
    /\ Returned("initialize")
    /\ ret = Ok(<<>>)
    /\ call.args[2] > call.args[3]
    /\ "PairStorage" \in DOMAIN store

\* C9: once initialize has succeeded, every get_reserves returns (0, 0, 0)
\* and every get_fee_state returns baseline_bps 30, min_bps 10, max_bps 100.
C9_Defaults ==
    succeeded =>
        /\ (Returned("get_reserves") => ret = Ok(<<0, 0, 0>>))
        /\ (Returned("get_fee_state") =>
              /\ ret.kind = "Ok"
              /\ <<ret.val.baseline_bps, ret.val.min_bps, ret.val.max_bps>> = <<30, 10, 100>>)

\* get_fee_state has returned on an initialized instance.
C9_Witness ==
    /\ Returned("get_fee_state")
    /\ succeeded
    /\ ret.kind = "Ok"

\* C10: while no initialize has succeeded, get_reserves and get_fee_state
\* abort; they return no value.
C10_AbortBeforeInit ==
    ~succeeded /\ (Returned("get_reserves") \/ Returned("get_fee_state"))
        => ret = Abort

\* get_reserves has aborted on an instance that was never initialized.
C10_Witness ==
    /\ Returned("get_reserves")
    /\ ~succeeded
    /\ ret = Abort

\* C11: the three records exist together or not at all, no step removes a
\* record, and get_reserves succeeds in exactly the states in which
\* get_fee_state succeeds.
C11_AtomicRecords ==
    [][/\ DOMAIN store \in {{}, DataKey}
       /\ DOMAIN store' \in {{}, DataKey}
       /\ DOMAIN store \subseteq DOMAIN store'
       /\ (get_reserves(store).kind = "Ok" <=> get_fee_state(store).kind = "Ok")
       /\ (get_reserves(store').kind = "Ok" <=> get_fee_state(store').kind = "Ok")]_vars

\* All three records exist and an accessor has returned a value.
C11_Witness ==
    /\ DOMAIN store = DataKey
    /\ Returned("get_reserves")
    /\ ret.kind = "Ok"

\* C12: every finished call is a success, one error code or an abort;
\* initialize never aborts and its error codes are AlreadyInitialized,
\* ZeroAddress and IdenticalTokens only (none of 103..113); get_reserves
\* and get_fee_state return a value or abort, never an error code.
C12_Outcomes ==
    pc = "returned" =>
        /\ ret.kind \in {"Ok", "Err", "Abort"}
        /\ (call.op = "initialize" =>
              /\ ret.kind \in {"Ok", "Err"}
              /\ (ret.kind = "Err" =>
                    /\ ret.err \in {AlreadyInitialized, ZeroAddress, IdenticalTokens}
                    /\ ret.err \notin InsufficientLiquidityMinted..InvalidFee))
        /\ (call.op \in {"get_reserves", "get_fee_state"} =>
              ret.kind \in {"Ok", "Abort"})

\* get_fee_state has aborted.
C12_Witness ==
    /\ Returned("get_fee_state")
    /\ ret = Abort

\* C13: initialize transactions run one after the other in any order; one
\* succeeds only if none has succeeded before, the identity it stores is
\* derived from its own arguments, and every initialize that runs after the
\* success returns AlreadyInitialized and leaves the storage as it is.
C13_OneWinner ==
    [][Handles("initialize") =>
         /\ (ret'.kind = "Ok" =>
               /\ ~succeeded
               /\ store'["PairStorage"].factory = call.args[1]
               /\ {store'["PairStorage"].token_0, store'["PairStorage"].token_1}
                    = {call.args[2], call.args[3]}
               /\ store'["PairStorage"].lp_token = call.args[4])
         /\ (succeeded =>
               /\ ret' = Err(AlreadyInitialized)
               /\ store' = store)]_vars

\* An invocation with valid arguments, which would have given another
\* identity, ran after the successful one and lost.
C13_Witness ==
    /\ Returned("initialize")
    /\ succeeded
    /\ ret = Err(AlreadyInitialized)
    /\ AllNonNull(call.args)
    /\ PairwiseDistinct(call.args)
    /\ call.args[4] # store["PairStorage"].lp_token
    /\ {call.args[2], call.args[3]}
         # {store["PairStorage"].token_0, store["PairStorage"].token_1}

\* C14: a call rejected with ZeroAddress or IdenticalTokens leaves the
\* instance uninitialized, and after any number of such calls and no
\* success an initialize with four non-null arguments and token_a # token_b
\* succeeds.
C14_RetryAfterRejection ==
    [][Handles("initialize") =>
         /\ (ret'.kind = "Err" /\ ret'.err \in {ZeroAddress, IdenticalTokens} =>
               /\ ~succeeded'
               /\ store' = EmptyStorage)
         /\ (~succeeded /\ AllNonNull(call.args) /\ call.args[2] # call.args[3] =>
               ret' = Ok(<<>>))]_vars

\* initialize has succeeded after MaxRejected rejected calls.
C14_Witness ==
    /\ Returned("initialize")
    /\ ret = Ok(<<>>)
    /\ rejections = MaxRejected
    /\ succeeded

\* The lesser and the greater of two addresses.
LesserAddr(a, b) == CHOOSE x \in {a, b} : \A y \in {a, b} : x <= y
GreaterAddr(a, b) == CHOOSE x \in {a, b} : \A y \in {a, b} : x >= y

\* C15: a successful initialize(factory, token_a, token_b, lp_token) stores
\* factory and lp_token as given, token_0 = min(token_a, token_b) and
\* token_1 = max(token_a, token_b), so {token_0, token_1} = {token_a,
\* token_b}.
C15_StoresArguments ==
    [][Handles("initialize") /\ ret'.kind = "Ok" =>
         LET ps == store'["PairStorage"]
         IN  /\ ps.factory = call.args[1]
             /\ ps.lp_token = call.args[4]
             /\ ps.token_0 = LesserAddr(call.args[2], call.args[3])
             /\ ps.token_1 = GreaterAddr(call.args[2], call.args[3])
             /\ {ps.token_0, ps.token_1} = {call.args[2], call.args[3]}]_vars

\* A success with four different arguments, the greater token first; the
\* record holds the arguments.
C15_Witness ==
    /\ Returned("initialize")
    /\ ret = Ok(<<>>)
    /\ PairwiseDistinct(call.args)
    /\ call.args[2] > call.args[3]
    /\ store["PairStorage"].factory = call.args[1]
    /\ store["PairStorage"].token_0 = call.args[3]

\* C16: a get_reserves or get_fee_state call, returning or aborting, leaves
\* the instance storage and its ttl unchanged, and every initialize call
\* returns after it what it would have returned before it.
C16_AccessorsPure ==
    [][Handles("get_reserves") \/ Handles("get_fee_state") =>
         /\ store' = store
         /\ ttl' = ttl
         /\ succeeded' = succeeded
         /\ \A f, a, b, l \in Address :
               initialize(store', ttl', f, a, b, l).ret = initialize(store, ttl, f, a, b, l).ret]_vars

\* get_reserves has returned the reserves of an initialized instance.
C16_Witness ==
    /\ Returned("get_reserves")
    /\ ret = Ok(<<0, 0, 0>>)
    /\ ttl = LedgerBump

\* C17: whenever the FeeState record exists, min_bps <= baseline_bps <=
\* max_bps, and every step keeps the record as it is.
C17_FeeBounds ==
    [][/\ ("FeeState" \in DOMAIN store =>
             /\ store["FeeState"].min_bps <= store["FeeState"].baseline_bps
             /\ store["FeeState"].baseline_bps <= store["FeeState"].max_bps
             /\ "FeeState" \in DOMAIN store'
             /\ store'["FeeState"] = store["FeeState"])
       /\ ("FeeState" \in DOMAIN store' =>
             /\ store'["FeeState"].min_bps <= store'["FeeState"].baseline_bps
             /\ store'["FeeState"].baseline_bps <= store'["FeeState"].max_bps)]_vars

\* The FeeState record exists and a further initialize has run.
C17_Witness ==
    /\ Returned("initialize")
    /\ "FeeState" \in DOMAIN store
    /\ ret = Err(AlreadyInitialized)
    /\ store["FeeState"].min_bps < store["FeeState"].baseline_bps

\* C18: whenever the ReentrancyGuard record exists, locked is false, and
\* no call is refused with the Locked code.
C18_NeverLocked ==
    /\ ("ReentrancyGuard" \in DOMAIN store => store["ReentrancyGuard"].locked = FALSE)
    /\ ~(ret.kind = "Err" /\ ret.err = Locked)

\* The guard record exists, unlocked, and an accessor has been served.
C18_Witness ==
    /\ "ReentrancyGuard" \in DOMAIN store
    /\ ~store["ReentrancyGuard"].locked
    /\ Returned("get_fee_state")
    /\ ret.kind = "Ok"

\* C19: on an instance without records, initialize succeeds exactly when
\* its four arguments are non-null and token_a # token_b; factory and
\* lp_token may equal a token or each other, and are stored as given.
C19_SuccessIff ==
    [][Handles("initialize") /\ store = EmptyStorage =>
         /\ (ret' = Ok(<<>>) <=> AllNonNull(call.args) /\ call.args[2] # call.args[3])
         /\ (ret' = Ok(<<>>) =>
               /\ store'["PairStorage"].factory = call.args[1]
               /\ store'["PairStorage"].lp_token = call.args[4])]_vars

\* A success with factory = lp_token = token_a.
C19_Witness ==
    /\ Returned("initialize")
    /\ ret = Ok(<<>>)
    /\ call.args[1] = call.args[4]
    /\ call.args[4] = call.args[2]
    /\ store["PairStorage"].factory = store["PairStorage"].lp_token

====
